---- MODULE Spec2Model ----
(***************************************************************************)
(* The in-memory user store of go-microservice-template                    *)
(* (internal/service/user_service.go): a map from resource name to *User,   *)
(* an id counter and one sync.RWMutex, used by concurrent request handlers. *)
(*                                                                         *)
(* Records live in a heap (a sequence; a *v1.User is an index into it), so  *)
(* that the pointer a handler returns aliases the record the map holds.     *)
(* Strings that the code formats or parses (page tokens, the decimal id)    *)
(* are sequences of one-character strings; resource names are TLA+ strings  *)
(* built from them.                                                         *)
(***************************************************************************)
EXTENDS Integers, Sequences, FiniteSets, TLC

VARIABLES
    users,      \* s.users : resource name -> pointer (heap index)
    heap,       \* the allocated v1.User records, in allocation order
    nextID,     \* s.nextID
    mu,         \* s.mu : [w: the process holding Lock or 0, r: set of RLock holders]
    now,        \* the wall clock read by timestamppb.Now()
    pc,         \* each handler goroutine's position
    cur,        \* the request each goroutine is serving
    loc,        \* the handler's local variables
    res,        \* what the handler is returning to its caller
    held,       \* the records each caller holds from the last response, until its next call
    calls,      \* number of calls made so far
    created,    \* history: the names returned by successful CreateUser calls, in order
    deleted,    \* history: the names removed by successful DeleteUser calls
    inputs,     \* history: the records the successful CreateUser calls were given, in order
    updated,    \* history: the names of the records a successful UpdateUser has stamped
    pager,      \* a client that pages through ListUsers (SpecPage only)
    envelope,   \* the last call of package response and what it returned (SpecResponse only)
    srv         \* the process of main: its position, its two servers, the calls in flight (SpecMain only)

vars ==
    <<users, heap, nextID, mu, now, pc, cur, loc, res, held, calls, created, deleted,
      inputs, updated, pager, envelope, srv>>

\* the variables main does not touch
storeVars ==
    <<users, heap, nextID, mu, now, pc, cur, loc, res, held, calls, created, deleted,
      inputs, updated, pager, envelope>>

-----------------------------------------------------------------------------
(* Bounds of the model *)

NumProcs == 2
MaxUsers == 2
MaxClock == 1
MaxCalls == 3
MaxTokenLen == 2
MaxPermUsers == 3
MaxInflight == 1
MaxSeconds == 11

(* Constants of the program *)

DefaultPageSize == 50
MaxPageSize == 1000
MaxBatchNames == 1000
MissingID == 999
ShutdownTimeout == 10

Procs == 1..NumProcs

-----------------------------------------------------------------------------
(* Strings: fmt.Sprintf("%d"), fmt.Sscanf("%d") *)

DigitChars == <<"0", "1", "2", "3", "4", "5", "6", "7", "8", "9">>

IsDigit(c) == \E i \in 1..10 : DigitChars[i] = c

DigitVal(c) == (CHOOSE i \in 1..10 : DigitChars[i] = c) - 1

RECURSIVE FormatNat(_)
FormatNat(n) ==
    IF n < 10 THEN <<DigitChars[n + 1]>>
    ELSE Append(FormatNat(n \div 10), DigitChars[(n % 10) + 1])

\* fmt.Sprintf("%d", n)
SprintfD(n) == IF n < 0 THEN <<"-">> \o FormatNat(-n) ELSE FormatNat(n)

RECURSIVE StrOf(_)
StrOf(cs) == IF cs = <<>> THEN "" ELSE Head(cs) \o StrOf(Tail(cs))

\* fmt.Sprintf("users/%s", userID)
UserName(userID) == "users/" \o StrOf(userID)

RECURSIVE SkipSpace(_)
SkipSpace(s) ==
    IF s # <<>> /\ Head(s) = " " THEN SkipSpace(Tail(s)) ELSE s

RECURSIVE ScanDigits(_)
ScanDigits(s) ==
    IF s # <<>> /\ IsDigit(Head(s)) THEN <<Head(s)>> \o ScanDigits(Tail(s)) ELSE <<>>

RECURSIVE ParseDigits(_, _)
ParseDigits(s, acc) ==
    IF s = <<>> THEN acc ELSE ParseDigits(Tail(s), 10 * acc + DigitVal(Head(s)))

\* fmt.Sscanf(token, "%d", &start): the value left in start, which was prev.
\* Leading blanks are skipped, one sign is accepted, then the longest run of
\* decimal digits is read; what follows the digits is not looked at.  With no
\* digit to read the scan fails and start keeps its value.
SscanfD(token, prev) ==
    LET t == SkipSpace(token)
        signed == t # <<>> /\ Head(t) \in {"+", "-"}
        body == IF signed THEN Tail(t) ELSE t
        digs == ScanDigits(body)
        mag == ParseDigits(digs, 0)
    IN  IF digs = <<>> THEN prev
        ELSE IF signed /\ Head(t) = "-" THEN 0 - mag ELSE mag

-----------------------------------------------------------------------------
(* Records, requests, responses *)

NilTime == -1
Nil == 0

\* a v1.User message; present = FALSE is the nil message
MkUser(name, email, display_name, phone_number, is_active, ct, ut) ==
    [present |-> TRUE, name |-> name, email |-> email, display_name |-> display_name,
     phone_number |-> phone_number, is_active |-> is_active,
     create_time |-> ct, update_time |-> ut]

NilUser ==
    [present |-> FALSE, name |-> "", email |-> "", display_name |-> "",
     phone_number |-> "", is_active |-> FALSE,
     create_time |-> NilTime, update_time |-> NilTime]

\* a fieldmaskpb.FieldMask; present = FALSE is the nil mask
NilMask == [present |-> FALSE, paths |-> <<>>]
MkMask(paths) == [present |-> TRUE, paths |-> paths]

NoReq ==
    [op |-> "none", user |-> NilUser, update_mask |-> NilMask, name |-> "",
     names |-> <<>>, page_size |-> 0, page_token |-> <<>>]

CreateUserRequest(u) == [NoReq EXCEPT !.op = "CreateUser", !.user = u]
GetUserRequest(n) == [NoReq EXCEPT !.op = "GetUser", !.name = n]
ListUsersRequest(ps, tok) ==
    [NoReq EXCEPT !.op = "ListUsers", !.page_size = ps, !.page_token = tok]
UpdateUserRequest(u, m) ==
    [NoReq EXCEPT !.op = "UpdateUser", !.user = u, !.update_mask = m]
DeleteUserRequest(n) == [NoReq EXCEPT !.op = "DeleteUser", !.name = n]
BatchGetUsersRequest(ns) == [NoReq EXCEPT !.op = "BatchGetUsers", !.names = ns]

\* what a handler returns: the status code, and the message of its return type
NoRes ==
    [code |-> "none", user |-> Nil, users |-> <<>>, next_page_token |-> <<>>,
     total_size |-> 0]

ErrRes(code) == [NoRes EXCEPT !.code = code]
UserRes(ptr) == [NoRes EXCEPT !.code = "OK", !.user = ptr]
EmptyRes == [NoRes EXCEPT !.code = "OK"]
BatchRes(ptrs) == [NoRes EXCEPT !.code = "OK", !.users = ptrs]
ListRes(ptrs, tok, total) ==
    [NoRes EXCEPT !.code = "OK", !.users = ptrs, !.next_page_token = tok,
                  !.total_size = total]

NoLoc == [userID |-> <<>>, user |-> Nil, pageSize |-> 0, allUsers |-> <<>>, start |-> 0]

-----------------------------------------------------------------------------
(* The inputs the callers draw from *)

EmailA == "a@x.com"
EmailB == "b@x.com"

ReqNames ==
    {""} \cup {UserName(SprintfD(k)) : k \in 1..MaxUsers} \cup {UserName(SprintfD(MissingID))}

CreateInputs ==
    { NilUser,
      MkUser("", "", "Ann", "", FALSE, NilTime, NilTime),
      MkUser("", EmailA, "Ann", "", FALSE, NilTime, NilTime),
      MkUser(UserName(SprintfD(MissingID)), EmailB, "", "555", FALSE, 7, 7) }

\* the UpdateUser requests, as <<user, update_mask>>
UpdateRequests ==
    LET first == UserName(SprintfD(1))
        missing == UserName(SprintfD(MissingID))
    IN  { <<NilUser, NilMask>>,
          <<MkUser("", EmailB, "Bob", "", FALSE, NilTime, NilTime), NilMask>>,
          <<MkUser(missing, EmailB, "Bob", "", FALSE, NilTime, NilTime), NilMask>>,
          <<MkUser(first, "", "", "555", TRUE, NilTime, NilTime), MkMask(<<"email">>)>>,
          <<MkUser(first, EmailB, "Bob", "555", TRUE, 7, 7),
            MkMask(<<"display_name", "create_time", "name">>)>>,
          <<MkUser(first, "", "Al", "556", FALSE, NilTime, NilTime), NilMask>>,
          <<MkUser(first, EmailB, "Bob", "555", FALSE, 7, 7), MkMask(<<>>)>>,
          <<MkUser(first, EmailB, "Bob", "555", FALSE, 7, 7),
            MkMask(<<"nickname", "update_time">>)>>,
          <<MkUser(first, EmailB, "", "555", FALSE, NilTime, NilTime),
            MkMask(<<"email", "display_name", "phone_number", "is_active">>)>>,
          <<MkUser(first, EmailB, "Bob", "555", FALSE, NilTime, NilTime),
            MkMask(<<"email", "display_name", "phone_number", "is_active">>)>> }
    \cup { <<MkUser(UserName(SprintfD(k)), EmailB, "Bob", "", FALSE, NilTime, NilTime), NilMask>> :
             k \in 1..MaxUsers }

PageSizes == {0, 1}

PageTokens == {<<>>, <<"1">>}

BatchNames ==
    { <<>>,
      <<UserName(SprintfD(1)), UserName(SprintfD(MissingID))>>,
      [i \in 1..MaxBatchNames |-> UserName(SprintfD(1))],
      <<UserName(SprintfD(2)), UserName(SprintfD(MissingID)), UserName(SprintfD(1)),
        UserName(SprintfD(2))>>,
      [i \in 1..(MaxBatchNames + 1) |-> UserName(SprintfD(1))] }

-----------------------------------------------------------------------------
(* sync.RWMutex *)

\* Lock as it would be if it did not wait for the holders
LockNoWait(p) == mu' = [mu EXCEPT !.w = p]

\* s.mu.Lock(): waits until no goroutine holds the lock, for writing or reading
Lock(p) ==
    /\ mu.w = 0
    /\ mu.r = {}
    /\ mu' = [mu EXCEPT !.w = p]

\* RLock as it would be if it did not wait for the writer
RLockNoWait(p) == mu' = [mu EXCEPT !.r = @ \cup {p}]

\* s.mu.RLock(): waits until no goroutine holds the lock for writing
RLock(p) ==
    /\ mu.w = 0
    /\ mu' = [mu EXCEPT !.r = @ \cup {p}]

\* defer s.mu.Unlock() / defer s.mu.RUnlock(), run when the handler returns or panics
DeferredUnlock(p) ==
    mu' = [w |-> IF mu.w = p THEN 0 ELSE mu.w, r |-> mu.r \ {p}]

-----------------------------------------------------------------------------
(* The store *)

Crashed == \E p \in Procs : pc[p] = "crashed"

\* a caller may start a call
Idle(p) ==
    /\ ~Crashed
    /\ pc[p] = "idle"
    /\ calls < MaxCalls

\* the handler starts serving req; its validation failed with code, before any lock
Reject(p, req, code) ==
    /\ pc' = [pc EXCEPT ![p] = "ret"]
    /\ cur' = [cur EXCEPT ![p] = req]
    /\ res' = [res EXCEPT ![p] = ErrRes(code)]
    /\ calls' = calls + 1
    /\ held' = [held EXCEPT ![p] = {}]
    /\ UNCHANGED <<users, heap, nextID, mu, now, loc, updated, created, inputs, deleted, pager, envelope, srv>>

\* the handler starts serving req, passed validation and took the lock
Enter(p, req, next) ==
    /\ pc' = [pc EXCEPT ![p] = next]
    /\ cur' = [cur EXCEPT ![p] = req]
    /\ res' = [res EXCEPT ![p] = NoRes]
    /\ calls' = calls + 1
    /\ held' = [held EXCEPT ![p] = {}]
    /\ UNCHANGED <<users, heap, nextID, now, loc, updated, created, inputs, deleted, pager, envelope, srv>>

\* the handler's position moves on, with its result
Goto(p, next) == pc' = [pc EXCEPT ![p] = next]

Running(p, at) == ~Crashed /\ pc[p] = at

Exists(name) == name \in DOMAIN users

\* MapPut replacing the map by one that holds the new entry only
MapPutReplacesAll(name, ptr) == [n \in {name} |-> ptr]

\* s.users[name] = ptr
MapPut(name, ptr) ==
    [n \in DOMAIN users \cup {name} |-> IF n = name THEN ptr ELSE users[n]]

\* MapDelete as a tombstone: the entry stays in the map
MapDeleteTombstone(name) == users

\* delete(s.users, name)
MapDelete(name) == [n \in DOMAIN users \ {name} |-> users[n]]

(* CreateUser *)

\* CreateUserCall taking the id before it tests the email
CreateUserCallConsumesID(p, u) ==
    /\ Idle(p)
    /\ IF ~u.present
       THEN Reject(p, CreateUserRequest(u), "InvalidArgument")
       ELSE IF u.email = ""
       THEN /\ TRUE
            /\ nextID <= MaxUsers
            /\ nextID' = nextID + 1
            /\ pc' = [pc EXCEPT ![p] = "ret"]
            /\ cur' = [cur EXCEPT ![p] = CreateUserRequest(u)]
            /\ res' = [res EXCEPT ![p] = ErrRes("InvalidArgument")]
            /\ calls' = calls + 1
            /\ held' = [held EXCEPT ![p] = {}]
            /\ UNCHANGED <<users, heap, mu, now, loc, updated, created, inputs, deleted, pager, envelope, srv>>
       ELSE /\ nextID <= MaxUsers
            /\ Lock(p)
            /\ Enter(p, CreateUserRequest(u), "create_id")

\* CreateUserCall without the test of the email
CreateUserCallNoEmailCheck(p, u) ==
    /\ Idle(p)
    /\ IF ~u.present THEN Reject(p, CreateUserRequest(u), "InvalidArgument")
       ELSE /\ nextID <= MaxUsers
            /\ Lock(p)
            /\ Enter(p, CreateUserRequest(u), "create_id")

CreateUserCall(p, u) ==
    LET req == CreateUserRequest(u) IN
    /\ Idle(p)
    /\ IF ~u.present THEN Reject(p, req, "InvalidArgument")
       ELSE IF u.email = "" THEN Reject(p, req, "InvalidArgument")
       ELSE /\ nextID <= MaxUsers
            /\ Lock(p)
            /\ Enter(p, req, "create_id")

\* userID := fmt.Sprintf("%d", s.nextID)
CreateUserID(p) ==
    /\ Running(p, "create_id")
    /\ loc' = [loc EXCEPT ![p].userID = SprintfD(nextID)]
    /\ Goto(p, "create_incr")
    /\ UNCHANGED <<users, heap, nextID, mu, now, cur, res, held, calls, updated, created, inputs, deleted, pager, envelope, srv>>

\* CreateUserIncr with the increment lost
CreateUserIncrLost(p) ==
    /\ pc[p] = "create_incr"
    /\ pc' = [pc EXCEPT ![p] = "create_store"]
    /\ UNCHANGED <<users, heap, nextID, mu, now, cur, loc, res, held, calls, updated, created, inputs, deleted, pager, envelope, srv>>

\* s.nextID++
CreateUserIncr(p) ==
    /\ Running(p, "create_incr")
    /\ nextID' = nextID + 1
    /\ Goto(p, "create_store")
    /\ UNCHANGED <<users, heap, mu, now, cur, loc, res, held, calls, updated, created, inputs, deleted, pager, envelope, srv>>

\* NewUser without the phone number
NewUserDropsPhone(u, userID, t) ==
    MkUser(UserName(userID), u.email, u.display_name, "", TRUE, t, t)

\* NewUser as a copy of the request's record with the name filled in when it has none
NewUserCopiesInput(u, userID, t) ==
    [u EXCEPT !.name = IF u.name = "" THEN UserName(userID) ELSE u.name,
              !.create_time = t, !.update_time = t]

\* the record CreateUser builds from the request
NewUser(u, userID, t) ==
    MkUser(UserName(userID), u.email, u.display_name, u.phone_number, TRUE, t, t)

\* now := timestamppb.Now(); user := &v1.User{...}; s.users[user.Name] = user; return user, nil
CreateUserStore(p) ==
    LET user == NewUser(cur[p].user, loc[p].userID, now)
        ptr == Len(heap) + 1
    IN  /\ Running(p, "create_store")
        /\ heap' = Append(heap, user)
        /\ users' = MapPut(user.name, ptr)
        /\ res' = [res EXCEPT ![p] = UserRes(ptr)]
        /\ created' = Append(created, user.name)
        /\ inputs' = Append(inputs, cur[p].user)
        /\ Goto(p, "ret")
        /\ UNCHANGED <<nextID, mu, now, cur, loc, held, calls, updated, deleted, pager, envelope, srv>>

(* GetUser *)

GetUserCall(p, name) ==
    LET req == GetUserRequest(name) IN
    /\ Idle(p)
    /\ IF name = "" THEN Reject(p, req, "InvalidArgument")
       ELSE RLock(p) /\ Enter(p, req, "get_lookup")

GetUserLookup(p) ==
    /\ Running(p, "get_lookup")
    /\ res' = [res EXCEPT ![p] =
                 IF ~Exists(cur[p].name) THEN ErrRes("NotFound")
                 ELSE UserRes(users[cur[p].name])]
    /\ Goto(p, "ret")
    /\ UNCHANGED <<users, heap, nextID, mu, now, cur, loc, held, calls, updated, created, inputs, deleted, pager, envelope, srv>>

(* ListUsers *)

\* EffectivePageSize without the cap at the maximum
EffectivePageSizeNoCap(page_size) ==
    IF page_size <= 0 THEN DefaultPageSize ELSE page_size

\* pageSize := req.GetPageSize(); if pageSize <= 0 {50}; if pageSize > 1000 {1000}
EffectivePageSize(page_size) ==
    LET ps == IF page_size <= 0 THEN DefaultPageSize ELSE page_size
    IN  IF ps > MaxPageSize THEN MaxPageSize ELSE ps

Stored == {users[n] : n \in DOMAIN users}

Ascending(S) == SelectSeq([i \in 1..Len(heap) |-> i], LAMBDA a : a \in S)

Reverse(q) == [i \in 1..Len(q) |-> q[Len(q) + 1 - i]]

\* for _, user := range s.users { allUsers = append(allUsers, user) }: Go leaves the
\* order of a map range unspecified and varies it from one range to the next, so the
\* slice is any arrangement of the stored pointers (for a store of more than
\* MaxPermUsers records the model draws from two arrangements only)
Enumerations ==
    LET S == Stored
        n == Cardinality(S)
    IN  IF n <= MaxPermUsers
        THEN {q \in [1..n -> S] : \A i, j \in 1..n : q[i] = q[j] => i = j}
        ELSE {Ascending(S), Reverse(Ascending(S))}

\* start := 0; if req.GetPageToken() != "" { fmt.Sscanf(req.GetPageToken(), "%d", &start) }
DecodePageToken(page_token) ==
    IF page_token # <<>> THEN SscanfD(page_token, 0) ELSE 0

\* end := start + int(pageSize); if end > len(allUsers) { end = len(allUsers) }
PageEnd(start, pageSize, len) ==
    IF start + pageSize > len THEN len ELSE start + pageSize

\* allUsers[start:end] panics unless 0 <= start <= end <= cap(allUsers)
SliceInRange(start, end, len) == 0 <= start /\ start <= end /\ end <= len

\* ListUsersResponse with the token test off by one (end <= len)
ListUsersResponseOffByOne(allUsers, start, pageSize) ==
    LET len == Len(allUsers)
        end == IF start + pageSize > len THEN len ELSE start + pageSize
    IN  IF ~(0 <= start /\ start <= end) THEN ErrRes("Panic")
        ELSE ListRes(SubSeq(allUsers, start + 1, end),
                     IF end <= len THEN SprintfD(end) ELSE <<>>, len)

\* users := allUsers[start:end]; the next token; the response
ListUsersResponse(allUsers, start, pageSize) ==
    LET end == PageEnd(start, pageSize, Len(allUsers)) IN
    IF ~SliceInRange(start, end, Len(allUsers)) THEN ErrRes("Panic")
    ELSE ListRes(SubSeq(allUsers, start + 1, end),
                 IF end < Len(allUsers) THEN SprintfD(end) ELSE <<>>,
                 Len(allUsers))

ListUsersCall(p, page_size, page_token) ==
    /\ Idle(p)
    /\ RLock(p)
    /\ Enter(p, ListUsersRequest(page_size, page_token), "list_scan")

\* lines 87-107: the page size, the enumeration of the map, the decoded offset
ListUsersScan(p) ==
    /\ Running(p, "list_scan")
    /\ \E q \in Enumerations :
         loc' = [loc EXCEPT ![p].pageSize = EffectivePageSize(cur[p].page_size),
                            ![p].allUsers = q,
                            ![p].start = DecodePageToken(cur[p].page_token)]
    /\ Goto(p, "list_slice")
    /\ UNCHANGED <<users, heap, nextID, mu, now, cur, res, held, calls, updated, created, inputs, deleted, pager, envelope, srv>>

\* lines 109-125: the slice and the response, or the panic of the slice expression
ListUsersSlice(p) ==
    /\ Running(p, "list_slice")
    /\ res' = [res EXCEPT ![p] =
                 ListUsersResponse(loc[p].allUsers, loc[p].start, loc[p].pageSize)]
    /\ Goto(p, "ret")
    /\ UNCHANGED <<users, heap, nextID, mu, now, cur, loc, held, calls, updated, created, inputs, deleted, pager, envelope, srv>>

(* UpdateUser *)

UpdateUserCall(p, u, mask) ==
    LET req == UpdateUserRequest(u, mask) IN
    /\ Idle(p)
    /\ IF ~u.present THEN Reject(p, req, "InvalidArgument")
       ELSE IF u.name = "" THEN Reject(p, req, "InvalidArgument")
       ELSE Lock(p) /\ Enter(p, req, "update_lookup")

\* UpdateUserLookup as an upsert: a name without a record gets a new one
UpdateUserLookupUpsert(p) ==
    LET name == cur[p].user.name
        ptr == IF name \in DOMAIN users THEN users[name] ELSE Len(heap) + 1
    IN  /\ pc[p] = "update_lookup"
        /\ heap' = IF name \in DOMAIN users THEN heap
                   ELSE Append(heap, MkUser(name, "", "", "", FALSE, now, now))
        /\ users' = [n \in DOMAIN users \cup {name} |-> IF n = name THEN ptr ELSE users[n]]
        /\ loc' = [loc EXCEPT ![p].user = ptr]
        /\ pc' = [pc EXCEPT ![p] = "update_apply"]
        /\ UNCHANGED <<nextID, mu, now, cur, res, held, calls, updated, created, inputs, deleted, pager, envelope, srv>>

\* user, exists := s.users[req.GetUser().GetName()]
UpdateUserLookup(p) ==
    /\ Running(p, "update_lookup")
    /\ IF ~Exists(cur[p].user.name)
       THEN /\ res' = [res EXCEPT ![p] = ErrRes("NotFound")]
            /\ Goto(p, "ret")
            /\ UNCHANGED loc
       ELSE /\ loc' = [loc EXCEPT ![p].user = users[cur[p].user.name]]
            /\ Goto(p, "update_apply")
            /\ UNCHANGED res
    /\ UNCHANGED <<users, heap, nextID, mu, now, cur, held, calls, updated, created, inputs, deleted, pager, envelope, srv>>

\* ApplyPath with the display_name case falling through to the email case
ApplyPathFallthrough(dst, src, path) ==
    CASE path = "email" -> [dst EXCEPT !.email = src.email]
      [] path = "display_name" ->
            [dst EXCEPT !.display_name = src.display_name, !.email = src.email]
      [] path = "phone_number" -> [dst EXCEPT !.phone_number = src.phone_number]
      [] path = "is_active" -> [dst EXCEPT !.is_active = src.is_active]
      [] OTHER -> dst

\* one iteration of the loop of updateUserWithMask: switch path { ... }
ApplyPath(dst, src, path) ==
    CASE path = "email" -> [dst EXCEPT !.email = src.email]
      [] path = "display_name" -> [dst EXCEPT !.display_name = src.display_name]
      [] path = "phone_number" -> [dst EXCEPT !.phone_number = src.phone_number]
      [] path = "is_active" -> [dst EXCEPT !.is_active = src.is_active]
      [] OTHER -> dst

\* updateUserWithMask with a case for every field of the message, create_time included
RECURSIVE updateUserWithMaskAnyField(_, _, _)
updateUserWithMaskAnyField(dst, src, paths) ==
    IF paths = <<>> THEN dst
    ELSE LET path == Head(paths)
             d == CASE path = "email" -> [dst EXCEPT !.email = src.email]
                    [] path = "display_name" -> [dst EXCEPT !.display_name = src.display_name]
                    [] path = "phone_number" -> [dst EXCEPT !.phone_number = src.phone_number]
                    [] path = "is_active" -> [dst EXCEPT !.is_active = src.is_active]
                    [] path = "create_time" -> [dst EXCEPT !.create_time = src.create_time]
                    [] OTHER -> dst
         IN  updateUserWithMaskAnyField(d, src, Tail(paths))

\* updateUserWithMask skipping the empty strings as the branch without a mask does
RECURSIVE updateUserWithMaskSkipEmpty(_, _, _)
updateUserWithMaskSkipEmpty(dst, src, paths) ==
    IF paths = <<>> THEN dst
    ELSE LET path == Head(paths)
             d == CASE path = "email" /\ src.email # "" -> [dst EXCEPT !.email = src.email]
                    [] path = "display_name" /\ src.display_name # "" ->
                          [dst EXCEPT !.display_name = src.display_name]
                    [] path = "phone_number" /\ src.phone_number # "" ->
                          [dst EXCEPT !.phone_number = src.phone_number]
                    [] path = "is_active" -> [dst EXCEPT !.is_active = src.is_active]
                    [] OTHER -> dst
         IN  updateUserWithMaskSkipEmpty(d, src, Tail(paths))

RECURSIVE updateUserWithMask(_, _, _)
updateUserWithMask(dst, src, paths) ==
    IF paths = <<>> THEN dst
    ELSE updateUserWithMask(ApplyPath(dst, src, Head(paths)), src, Tail(paths))

\* UpdateAllFields without the tests for the empty string
UpdateAllFieldsOverwriteEmpty(dst, src) ==
    [dst EXCEPT !.email = src.email, !.display_name = src.display_name,
                !.phone_number = src.phone_number, !.is_active = src.is_active]

\* the else branch of UpdateUser: no mask
UpdateAllFields(dst, src) ==
    [dst EXCEPT !.email = IF src.email # "" THEN src.email ELSE @,
                !.display_name = IF src.display_name # "" THEN src.display_name ELSE @,
                !.phone_number = IF src.phone_number # "" THEN src.phone_number ELSE @,
                !.is_active = src.is_active]

\* UpdateUserApply taking a mask without paths for no mask
UpdateUserApplyEmptyMaskAsNone(p) ==
    /\ pc[p] = "update_apply"
    /\ heap' = [heap EXCEPT ![loc[p].user] =
                  IF cur[p].update_mask.present /\ cur[p].update_mask.paths # <<>>
                  THEN updateUserWithMask(@, cur[p].user, cur[p].update_mask.paths)
                  ELSE UpdateAllFields(@, cur[p].user)]
    /\ pc' = [pc EXCEPT ![p] = "update_stamp"]
    /\ UNCHANGED <<users, nextID, mu, now, cur, loc, res, held, calls, updated, created, inputs, deleted, pager, envelope, srv>>

\* lines 146-161
UpdateUserApply(p) ==
    LET ptr == loc[p].user
        src == cur[p].user
        mask == cur[p].update_mask
    IN  /\ Running(p, "update_apply")
        /\ heap' = [heap EXCEPT ![ptr] =
                      IF mask.present THEN updateUserWithMask(@, src, mask.paths)
                      ELSE UpdateAllFields(@, src)]
        /\ Goto(p, "update_stamp")
        /\ UNCHANGED <<users, nextID, mu, now, cur, loc, res, held, calls, updated, created, inputs, deleted, pager, envelope, srv>>

\* UpdateUserStamp stamping create_time instead of update_time
UpdateUserStampCreateTime(p) ==
    /\ pc[p] = "update_stamp"
    /\ heap' = [heap EXCEPT ![loc[p].user].create_time = now]
    /\ res' = [res EXCEPT ![p] = UserRes(loc[p].user)]
    /\ updated' = updated \cup {heap[loc[p].user].name}
    /\ pc' = [pc EXCEPT ![p] = "ret"]
    /\ UNCHANGED <<users, nextID, mu, now, cur, loc, held, calls, created, inputs, deleted, pager, envelope, srv>>

\* user.UpdateTime = timestamppb.Now(); return user, nil
UpdateUserStamp(p) ==
    LET ptr == loc[p].user IN
    /\ Running(p, "update_stamp")
    /\ heap' = [heap EXCEPT ![ptr].update_time = now]
    /\ res' = [res EXCEPT ![p] = UserRes(ptr)]
    /\ updated' = updated \cup {heap[ptr].name}
    /\ Goto(p, "ret")
    /\ UNCHANGED <<users, nextID, mu, now, cur, loc, held, calls, created, inputs, deleted, pager, envelope, srv>>

(* DeleteUser *)

DeleteUserCall(p, name) ==
    LET req == DeleteUserRequest(name) IN
    /\ Idle(p)
    /\ IF name = "" THEN Reject(p, req, "InvalidArgument")
       ELSE Lock(p) /\ Enter(p, req, "delete_remove")

\* DeleteUserRemove as an idempotent delete: an absent name is a success
DeleteUserRemoveIdempotent(p) ==
    /\ pc[p] = "delete_remove"
    /\ users' = [n \in DOMAIN users \ {cur[p].name} |-> users[n]]
    /\ res' = [res EXCEPT ![p] = EmptyRes]
    /\ deleted' = deleted \cup {cur[p].name}
    /\ pc' = [pc EXCEPT ![p] = "ret"]
    /\ UNCHANGED <<heap, nextID, mu, now, cur, loc, held, calls, updated, created, inputs, pager, envelope, srv>>

\* lines 176-181
DeleteUserRemove(p) ==
    LET name == cur[p].name IN
    /\ Running(p, "delete_remove")
    /\ IF ~Exists(name)
       THEN /\ res' = [res EXCEPT ![p] = ErrRes("NotFound")]
            /\ UNCHANGED <<users, deleted>>
       ELSE /\ users' = MapDelete(name)
            /\ res' = [res EXCEPT ![p] = EmptyRes]
            /\ deleted' = deleted \cup {name}
    /\ Goto(p, "ret")
    /\ UNCHANGED <<heap, nextID, mu, now, cur, loc, held, calls, updated, created, inputs, pager, envelope, srv>>

(* BatchGetUsers *)

\* BatchGetUsersCall with the cap off by one: 1000 names are rejected
BatchGetUsersCallCapOffByOne(p, names) ==
    /\ Idle(p)
    /\ IF Len(names) = 0 \/ Len(names) >= MaxBatchNames
       THEN Reject(p, BatchGetUsersRequest(names), "InvalidArgument")
       ELSE RLock(p) /\ Enter(p, BatchGetUsersRequest(names), "batch_collect")

BatchGetUsersCall(p, names) ==
    LET req == BatchGetUsersRequest(names) IN
    /\ Idle(p)
    /\ IF Len(names) = 0 THEN Reject(p, req, "InvalidArgument")
       ELSE IF Len(names) > MaxBatchNames THEN Reject(p, req, "InvalidArgument")
       ELSE RLock(p) /\ Enter(p, req, "batch_collect")

\* CollectUsers without the test that the name has a record: a nil entry for it
CollectUsersNoExistsCheck(names) ==
    [i \in 1..Len(names) |-> IF names[i] \in DOMAIN users THEN users[names[i]] ELSE Nil]

\* CollectUsers ranging over the map and taking the records whose name was asked for
CollectUsersByMapOrder(names) ==
    LET asked == {users[n] : n \in {names[i] : i \in 1..Len(names)} \cap DOMAIN users}
    IN  SelectSeq([i \in 1..Len(heap) |-> i], LAMBDA a : a \in asked)

\* for _, name := range req.GetNames() { if user, exists := s.users[name]; exists {
\* users = append(users, user) } }
CollectUsers(names) ==
    LET found == SelectSeq(names, Exists)
    IN  [i \in 1..Len(found) |-> users[found[i]]]

\* lines 197-206
BatchGetUsersCollect(p) ==
    /\ Running(p, "batch_collect")
    /\ res' = [res EXCEPT ![p] = BatchRes(CollectUsers(cur[p].names))]
    /\ Goto(p, "ret")
    /\ UNCHANGED <<users, heap, nextID, mu, now, cur, loc, held, calls, updated, created, inputs, deleted, pager, envelope, srv>>

Range(q) == {q[i] : i \in DOMAIN q}

\* the records a caller holds through the response it was given
HeldPtrs(r) == ({r.user} \ {Nil}) \cup Range(r.users)

(* The handler returns: its deferred unlock runs, and the caller has the result. *)
(* A panic unwinds through the deferred unlock and ends the process: the gRPC   *)
(* server installs no recovery.                                                 *)
Return(p) ==
    /\ Running(p, "ret")
    /\ DeferredUnlock(p)
    /\ pc' = [pc EXCEPT ![p] = IF res[p].code = "Panic" THEN "crashed" ELSE "idle"]
    /\ held' = [held EXCEPT ![p] = HeldPtrs(res[p])]
    /\ cur' = [cur EXCEPT ![p] = NoReq]
    /\ loc' = [loc EXCEPT ![p] = NoLoc]
    /\ res' = [res EXCEPT ![p] = NoRes]
    /\ UNCHANGED <<users, heap, nextID, now, calls, updated, created, inputs, deleted, pager, envelope, srv>>

\* time passes
Tick ==
    /\ ~Crashed
    /\ now < MaxClock
    /\ now' = now + 1
    /\ UNCHANGED <<users, heap, nextID, mu, pc, cur, loc, res, held, calls, updated, created, inputs, deleted, pager, envelope, srv>>

-----------------------------------------------------------------------------
(* Package response: the CommonResponse envelopes *)

CodeSuccess == 0
CodeInvalidArgument == 400
CodeNotFound == 404
CodeInternalError == 500
CodeAlreadyExists == 409
CodePermissionDenied == 403
CodeUnauthenticated == 401
CodeResourceExhausted == 429
CodeUnimplemented == 501

MsgSuccess == "success"
MsgInvalidArgument == "invalid argument"
MsgNotFound == "resource not found"
MsgInternalError == "internal server error"
MsgAlreadyExists == "resource already exists"

\* Go values handed to Success as data: [kind, v].  A "message" is a pointer to a
\* generated protobuf struct, a "rawstring" a string that is not valid UTF-8.
GoNil == [kind |-> "nil", v |-> 0]
GoBool(b) == [kind |-> "bool", v |-> b]
GoInt(n) == [kind |-> "int", v |-> n]
GoString(str) == [kind |-> "string", v |-> str]
GoRawString(str) == [kind |-> "rawstring", v |-> str]
GoMessage(ptr) == [kind |-> "message", v |-> ptr]
GoMap(fields) == [kind |-> "map", v |-> fields]
GoSlice(elems) == [kind |-> "slice", v |-> elems]

\* structpb.NewValue(v) on a value without nested values: the structpb.Value, or
\* "error" for a type NewValue does not know and for a string that is not UTF-8.
\* Integers become float64 numbers.
NewScalarValue(x) ==
    CASE x.kind = "nil" -> [kind |-> "null_value", v |-> 0]
      [] x.kind = "bool" -> [kind |-> "bool_value", v |-> x.v]
      [] x.kind = "int" -> [kind |-> "number_value", v |-> x.v]
      [] x.kind = "string" -> [kind |-> "string_value", v |-> x.v]
      [] OTHER -> [kind |-> "error", v |-> 0]

\* structpb.NewValue(v): maps and slices are converted element by element, and one
\* element that fails makes the whole conversion fail
NewValue(x) ==
    CASE x.kind = "map" ->
            LET vals == [k \in DOMAIN x.v |-> NewScalarValue(x.v[k])]
            IN  IF \E k \in DOMAIN vals : vals[k].kind = "error"
                THEN [kind |-> "error", v |-> 0]
                ELSE [kind |-> "struct_value", v |-> vals]
      [] x.kind = "slice" ->
            LET vals == [i \in DOMAIN x.v |-> NewScalarValue(x.v[i])]
            IN  IF \E i \in DOMAIN vals : vals[i].kind = "error"
                THEN [kind |-> "error", v |-> 0]
                ELSE [kind |-> "list_value", v |-> vals]
      [] OTHER -> NewScalarValue(x)

\* a *structpb.Struct: its fields as <<key, value>> pairs; present = FALSE is nil
NilStruct == [present |-> FALSE, fields |-> <<>>]
NewStruct(pairs) == [present |-> TRUE, fields |-> pairs]

\* a *apiv1.CommonResponse; present = FALSE is the nil pointer
NilResponse == [present |-> FALSE, error_code |-> 0, error_msg |-> "", data |-> NilStruct]
CommonResponse(code, msg, data) ==
    [present |-> TRUE, error_code |-> code, error_msg |-> msg, data |-> data]

\* what a function of the package returned: the response and whether err != nil
Returns(response, failed) == [response |-> response, err |-> failed]

\* Success(data)
Success(data) ==
    LET result == NewValue(data) IN
    IF result.kind = "error" THEN Returns(NilResponse, TRUE)
    ELSE Returns(CommonResponse(CodeSuccess, MsgSuccess, NewStruct(<<<<"result", result>>>>)),
                 FALSE)

\* Error(code, message)
Error(code, message) == CommonResponse(code, message, NilStruct)

\* NotFound with the code of InvalidArgument
NotFoundAsInvalidArgument(message) ==
    CommonResponse(CodeInvalidArgument, IF message = "" THEN MsgNotFound ELSE message,
                   NilStruct)

InvalidArgument(message) ==
    Error(CodeInvalidArgument, IF message = "" THEN MsgInvalidArgument ELSE message)

NotFound(message) ==
    Error(CodeNotFound, IF message = "" THEN MsgNotFound ELSE message)

InternalError(message) ==
    Error(CodeInternalError, IF message = "" THEN MsgInternalError ELSE message)

AlreadyExists(message) ==
    Error(CodeAlreadyExists, IF message = "" THEN MsgAlreadyExists ELSE message)

SuccessEmpty == CommonResponse(CodeSuccess, MsgSuccess, NilStruct)

\* no call of the package yet
NoEnvelope ==
    [fn |-> "none", code |-> 0, message |-> "", data |-> GoNil,
     out |-> Returns(NilResponse, FALSE)]

-----------------------------------------------------------------------------
(* main: the process with its two servers *)

MsgShuttingDown == "Shutting down servers..."
MsgShutdownError == "HTTP server shutdown error: context deadline exceeded"
MsgStopped == "Servers stopped"

\* signal.NotifyContext(context.Background(), os.Interrupt, syscall.SIGTERM)
Signals == {"SIGINT", "SIGTERM"}

\* context.WithTimeout(context.Background(), d), seconds after its creation
WithTimeout(d) == d

\* main waits in <-ctx.Done(): both servers serve, no call is in flight
Started ==
    [pc |-> "await_signal",   \* the position of main
     alive |-> TRUE,          \* the process runs
     sig |-> "none",          \* the signal that ended ctx
     http |-> "serving",      \* httpServer: serving, closing (Shutdown called), closed
     grpc |-> "serving",      \* grpcServer: serving, draining (GracefulStop called), stopped
     waiting |-> 0,           \* REST requests in a gateway handler before their RPC
     calling |-> 0,           \* REST requests whose RPC is being served
     rpcs |-> 0,              \* RPCs of gRPC clients being served
     timer |-> 0,             \* seconds since shutdownCtx was made
     deadline |-> 0,          \* the deadline of shutdownCtx
     err |-> "pending",       \* what httpServer.Shutdown returned
     log |-> <<>>]            \* the lines main logged

-----------------------------------------------------------------------------
NoPager == [state |-> "off", page_size |-> 0, token |-> <<>>, visited |-> <<>>, total |-> 0]

\* NewUserService()
Init ==
    /\ users = <<>>
    /\ heap = <<>>
    /\ nextID = 1
    /\ mu = [w |-> 0, r |-> {}]
    /\ now = 0
    /\ pc = [p \in Procs |-> "idle"]
    /\ cur = [p \in Procs |-> NoReq]
    /\ loc = [p \in Procs |-> NoLoc]
    /\ res = [p \in Procs |-> NoRes]
    /\ held = [p \in Procs |-> {}]
    /\ calls = 0
    /\ created = <<>>
    /\ deleted = {}
    /\ inputs = <<>>
    /\ updated = {}
    /\ envelope = NoEnvelope
    /\ srv = Started
    /\ pager = NoPager

Next ==
    \/ \E p \in Procs, u \in CreateInputs : CreateUserCall(p, u)
    \/ \E p \in Procs : CreateUserID(p)
    \/ \E p \in Procs : CreateUserIncr(p)
    \/ \E p \in Procs : CreateUserStore(p)
    \/ \E p \in Procs, n \in ReqNames : GetUserCall(p, n)
    \/ \E p \in Procs : GetUserLookup(p)
    \/ \E p \in Procs, ps \in PageSizes, tok \in PageTokens : ListUsersCall(p, ps, tok)
    \/ \E p \in Procs : ListUsersScan(p)
    \/ \E p \in Procs : ListUsersSlice(p)
    \/ \E p \in Procs, r \in UpdateRequests : UpdateUserCall(p, r[1], r[2])
    \/ \E p \in Procs : UpdateUserLookup(p)
    \/ \E p \in Procs : UpdateUserApply(p)
    \/ \E p \in Procs : UpdateUserStamp(p)
    \/ \E p \in Procs, n \in ReqNames : DeleteUserCall(p, n)
    \/ \E p \in Procs : DeleteUserRemove(p)
    \/ \E p \in Procs, ns \in BatchNames : BatchGetUsersCall(p, ns)
    \/ \E p \in Procs : BatchGetUsersCollect(p)
    \/ \E p \in Procs : Return(p)
    \/ Tick

Spec == Init /\ [][Next]_vars

\* the steps of the goroutine that serves a call of p, after the call was taken
HandlerStep(p) ==
    \/ CreateUserID(p) \/ CreateUserIncr(p) \/ CreateUserStore(p)
    \/ GetUserLookup(p)
    \/ ListUsersScan(p) \/ ListUsersSlice(p)
    \/ UpdateUserLookup(p) \/ UpdateUserApply(p) \/ UpdateUserStamp(p)
    \/ DeleteUserRemove(p)
    \/ BatchGetUsersCollect(p)
    \/ Return(p)

\* the scheduler of the Go runtime lets every goroutine that can run take its step
SpecFair == Spec /\ \A p \in Procs : WF_vars(HandlerStep(p))

-----------------------------------------------------------------------------
(* ListUsers on stores of chosen sizes: SpecList, SpecToken *)

\* a caller serving one call at a time: with no other goroutine the handlers
\* of one caller run one after the other
Caller == CHOOSE p \in Procs : \A q \in Procs : p <= q

SeedUser == MkUser("", EmailA, "Ann", "", FALSE, NilTime, NilTime)

\* the store after n successful CreateUser(SeedUser) calls and the successful
\* DeleteUser of the ids in gone
StoreAfter(n, gone) ==
    LET nameOf == [k \in 1..n |-> UserName(SprintfD(k))] IN
    /\ heap = [k \in 1..n |-> NewUser(SeedUser, SprintfD(k), 0)]
    /\ users = [nm \in {nameOf[k] : k \in (1..n) \ gone} |->
                  CHOOSE k \in 1..n : nameOf[k] = nm]
    /\ nextID = n + 1
    /\ created = nameOf
    /\ deleted = {nameOf[k] : k \in gone}
    /\ inputs = [k \in 1..n |-> SeedUser]
    /\ updated = {}
    /\ envelope = NoEnvelope
    /\ srv = Started
    /\ mu = [w |-> 0, r |-> {}]
    /\ now = 0
    /\ pc = [p \in Procs |-> "idle"]
    /\ cur = [p \in Procs |-> NoReq]
    /\ loc = [p \in Procs |-> NoLoc]
    /\ res = [p \in Procs |-> NoRes]
    /\ held = [p \in Procs |-> {}]
    /\ calls = 0

\* store sizes around the default and the maximum page size
ListSizes ==
    {0, 1, DefaultPageSize - 1, DefaultPageSize + 1, MaxPageSize, MaxPageSize + 1}

ListPageSizes ==
    {-1, 0, 1, DefaultPageSize + 1, MaxPageSize, MaxPageSize + 1, 5000}

ListTokens ==
    { <<>>, SprintfD(1), SprintfD(DefaultPageSize), SprintfD(MaxPageSize + 1),
      SprintfD(MaxPageSize + 2), <<"-", "1">> }

InitList ==
    /\ \E n \in ListSizes : StoreAfter(n, {})
    /\ pager = NoPager

NextList ==
    \/ \E ps \in ListPageSizes, tok \in ListTokens : ListUsersCall(Caller, ps, tok)
    \/ ListUsersScan(Caller)
    \/ ListUsersSlice(Caller)
    \/ Return(Caller)

SpecList == InitList /\ [][NextList]_vars

\* every page token of at most MaxTokenLen characters over TokenChars
TokenChars == {"0", "1", "7", "-", "+", " ", "x"}

AllTokens == UNION {[1..k -> TokenChars] : k \in 0..MaxTokenLen}

InitToken ==
    /\ \E n \in 0..MaxUsers : StoreAfter(n, {})
    /\ pager = NoPager

NextToken ==
    \/ \E tok \in AllTokens : ListUsersCall(Caller, 0, tok)
    \/ ListUsersScan(Caller)
    \/ ListUsersSlice(Caller)
    \/ Return(Caller)

SpecToken == InitToken /\ [][NextToken]_vars

-----------------------------------------------------------------------------
(* A client paging through ListUsers with nothing else running: SpecPage *)

\* ListUsers as one step, for the enumeration q that its range loop produced
ListUsers(q, page_size, page_token) ==
    ListUsersResponse(q, DecodePageToken(page_token), EffectivePageSize(page_size))

NamesOf(ptrs) == [i \in 1..Len(ptrs) |-> heap[ptrs[i]].name]

\* the client takes a response: it notes the records and keeps the next token
PagerTake(r, page_size) ==
    pager' = [state |-> IF r.code # "OK" THEN "failed"
                        ELSE IF r.next_page_token = <<>> THEN "done" ELSE "next",
              page_size |-> page_size,
              token |-> r.next_page_token,
              visited |-> pager.visited \o NamesOf(r.users),
              total |-> IF pager.state = "start" THEN r.total_size ELSE pager.total]

\* the first call, with an empty token
PagerStart(page_size) ==
    /\ pager.state = "start"
    /\ \E q \in Enumerations : PagerTake(ListUsers(q, page_size, <<>>), page_size)
    /\ UNCHANGED <<users, heap, nextID, mu, now, pc, cur, loc, res, held, calls, updated, created, inputs, deleted, envelope, srv>>

\* a further call, with the token of the previous response
PagerNext ==
    /\ pager.state = "next"
    /\ \E q \in Enumerations :
          PagerTake(ListUsers(q, pager.page_size, pager.token), pager.page_size)
    /\ UNCHANGED <<users, heap, nextID, mu, now, pc, cur, loc, res, held, calls, updated, created, inputs, deleted, envelope, srv>>

InitPage ==
    /\ \E n \in 0..MaxPermUsers : \E gone \in SUBSET (1..n) : StoreAfter(n, gone)
    /\ pager = [NoPager EXCEPT !.state = "start"]

NextPage ==
    \/ \E page_size \in 1..(MaxPermUsers + 1) : PagerStart(page_size)
    \/ PagerNext

SpecPage == InitPage /\ [][NextPage]_vars

-----------------------------------------------------------------------------
(* The callers of package response: SpecResponse *)

\* the codes of the package
ErrorCodes ==
    {CodeSuccess, CodeInvalidArgument, CodeNotFound, CodeInternalError, CodeAlreadyExists,
     CodePermissionDenied, CodeUnauthenticated, CodeResourceExhausted, CodeUnimplemented}

\* the messages the handlers report, and the empty message
Messages ==
    {"", "user is required", "email is required", "name is required",
     "user.name is required", "names is required",
     "cannot retrieve more than 1000 users at once", "user users/999 not found"}

UserAsMap(u) ==
    GoMap([name |-> GoString(u.name), email |-> GoString(u.email),
           display_name |-> GoString(u.display_name), is_active |-> GoBool(u.is_active)])

\* the values handed to Success
DataValues ==
    {GoNil, GoBool(TRUE), GoInt(MaxPageSize), GoString(""), GoString("users/1"),
     GoRawString("\\xff"), GoMessage(1),
     UserAsMap(NewUser(SeedUser, SprintfD(1), 0)),
     GoMap([user |-> GoMessage(1)]),
     GoSlice(<<GoString("users/1"), GoString("users/2")>>),
     GoSlice(<<>>)}

Built(fn, code, message, data, out) ==
    /\ envelope' = [fn |-> fn, code |-> code, message |-> message, data |-> data, out |-> out]
    /\ UNCHANGED <<users, heap, nextID, mu, now, pc, cur, loc, res, held, calls, created,
                   deleted, inputs, updated, pager, srv>>

CallSuccess(data) == Built("Success", 0, "", data, Success(data))

CallError(code, message) ==
    Built("Error", code, message, GoNil, Returns(Error(code, message), FALSE))

CallInvalidArgument(message) ==
    Built("InvalidArgument", 0, message, GoNil, Returns(InvalidArgument(message), FALSE))

CallNotFound(message) ==
    Built("NotFound", 0, message, GoNil, Returns(NotFound(message), FALSE))

CallInternalError(message) ==
    Built("InternalError", 0, message, GoNil, Returns(InternalError(message), FALSE))

CallAlreadyExists(message) ==
    Built("AlreadyExists", 0, message, GoNil, Returns(AlreadyExists(message), FALSE))

CallSuccessEmpty == Built("SuccessEmpty", 0, "", GoNil, Returns(SuccessEmpty, FALSE))

InitResponse ==
    /\ StoreAfter(0, {})
    /\ pager = NoPager

NextResponse ==
    \/ \E data \in DataValues : CallSuccess(data)
    \/ \E code \in ErrorCodes, message \in Messages : CallError(code, message)
    \/ \E message \in Messages : CallInvalidArgument(message)
    \/ \E message \in Messages : CallNotFound(message)
    \/ \E message \in Messages : CallInternalError(message)
    \/ \E message \in Messages : CallAlreadyExists(message)
    \/ CallSuccessEmpty

SpecResponse == InitResponse /\ [][NextResponse]_vars

-----------------------------------------------------------------------------
(* main: serving, the signal, and the shutdown                                *)

\* a REST request is accepted by httpServer
RestArrives ==
    /\ srv.alive
    /\ srv.http = "serving"
    /\ srv.waiting + srv.calling < MaxInflight
    /\ srv' = [srv EXCEPT !.waiting = @ + 1]
    /\ UNCHANGED storeVars

\* the gateway handler invokes the RPC on conn: a server that is draining or
\* stopped refuses it, and the handler answers with the error
RestCalls ==
    /\ srv.alive
    /\ srv.waiting > 0
    /\ srv' = IF srv.grpc = "serving"
              THEN [srv EXCEPT !.waiting = @ - 1, !.calling = @ + 1]
              ELSE [srv EXCEPT !.waiting = @ - 1]
    /\ UNCHANGED storeVars

\* the RPC of a REST request returns and the gateway writes the response
RestDone ==
    /\ srv.alive
    /\ srv.calling > 0
    /\ srv' = [srv EXCEPT !.calling = @ - 1]
    /\ UNCHANGED storeVars

\* an RPC of a gRPC client is accepted by grpcServer
RpcArrives ==
    /\ srv.alive
    /\ srv.grpc = "serving"
    /\ srv.rpcs < MaxInflight
    /\ srv' = [srv EXCEPT !.rpcs = @ + 1]
    /\ UNCHANGED storeVars

\* the handler of an RPC returns
RpcDone ==
    /\ srv.alive
    /\ srv.rpcs > 0
    /\ srv' = [srv EXCEPT !.rpcs = @ - 1]
    /\ UNCHANGED storeVars

\* a handler panics (ListUsers, allUsers[start:end]): no recovery is installed,
\* the process ends
HandlerPanics ==
    /\ srv.alive
    /\ srv.rpcs + srv.calling > 0
    /\ srv' = [srv EXCEPT !.alive = FALSE]
    /\ UNCHANGED storeVars

\* the process receives os.Interrupt or SIGTERM: ctx is done
Signal(sig) ==
    /\ srv.alive
    /\ srv.sig = "none"
    /\ srv' = [srv EXCEPT !.sig = sig]
    /\ UNCHANGED storeVars

\* <-ctx.Done(); log.Info("Shutting down servers..."); shutdownCtx := WithTimeout(10s)
AwaitSignal ==
    /\ srv.alive
    /\ srv.pc = "await_signal"
    /\ srv.sig # "none"
    /\ srv' = [srv EXCEPT !.pc = "shutdown_call",
                          !.log = Append(@, MsgShuttingDown),
                          !.timer = 0,
                          !.deadline = WithTimeout(ShutdownTimeout)]
    /\ UNCHANGED storeVars

\* httpServer.Shutdown(shutdownCtx) is called: the listeners close, no request is
\* accepted any more
ShutdownCall ==
    /\ srv.alive
    /\ srv.pc = "shutdown_call"
    /\ srv' = [srv EXCEPT !.pc = "shutdown_wait", !.http = "closing"]
    /\ UNCHANGED storeVars

\* Shutdown finds every connection idle and returns nil
ShutdownReturns ==
    /\ srv.alive
    /\ srv.pc = "shutdown_wait"
    /\ srv.waiting + srv.calling = 0
    /\ srv' = [srv EXCEPT !.pc = "graceful_call", !.http = "closed", !.err = "nil"]
    /\ UNCHANGED storeVars

\* shutdownCtx is done before Shutdown has seen every connection idle: it returns
\* ctx.Err()
ShutdownDeadline ==
    /\ srv.alive
    /\ srv.pc = "shutdown_wait"
    /\ srv.timer >= srv.deadline
    /\ srv' = [srv EXCEPT !.pc = "log_error", !.err = "DeadlineExceeded"]
    /\ UNCHANGED storeVars

\* LogShutdownError with a return after the log line
LogShutdownErrorAndReturn ==
    /\ srv.alive
    /\ srv.pc = "log_error"
    /\ srv' = [srv EXCEPT !.pc = "exited", !.alive = FALSE,
                          !.log = Append(@, MsgShutdownError)]
    /\ UNCHANGED storeVars

\* if err != nil { log.Error("HTTP server shutdown error: %v", err) }
LogShutdownError ==
    /\ srv.alive
    /\ srv.pc = "log_error"
    /\ srv' = [srv EXCEPT !.pc = "graceful_call", !.log = Append(@, MsgShutdownError)]
    /\ UNCHANGED storeVars

\* grpcServer.GracefulStop() is called: the listeners close, no RPC is accepted
\* any more
GracefulStopCall ==
    /\ srv.alive
    /\ srv.pc = "graceful_call"
    /\ srv' = [srv EXCEPT !.pc = "graceful_wait", !.grpc = "draining"]
    /\ UNCHANGED storeVars

\* the RPCs being served have returned: GracefulStop returns
GracefulStopReturns ==
    /\ srv.alive
    /\ srv.pc = "graceful_wait"
    /\ srv.rpcs + srv.calling = 0
    /\ srv' = [srv EXCEPT !.pc = "log_stopped", !.grpc = "stopped"]
    /\ UNCHANGED storeVars

\* log.Info("Servers stopped"); main returns and the process ends
LogStopped ==
    /\ srv.alive
    /\ srv.pc = "log_stopped"
    /\ srv' = [srv EXCEPT !.pc = "exited", !.alive = FALSE, !.log = Append(@, MsgStopped)]
    /\ UNCHANGED storeVars

\* a second passes while main is blocked in Shutdown or in GracefulStop (its other
\* statements take no time to speak of); Shutdown returns at the deadline of its
\* context at the latest, GracefulStop has no deadline
Second ==
    /\ srv.alive
    /\ srv.pc \in {"shutdown_wait", "graceful_wait"}
    /\ srv.timer < MaxSeconds
    /\ srv.pc = "shutdown_wait" => srv.timer < srv.deadline
    /\ srv' = [srv EXCEPT !.timer = @ + 1]
    /\ UNCHANGED storeVars

NextMain ==
    \/ RestArrives
    \/ RestCalls
    \/ RestDone
    \/ RpcArrives
    \/ RpcDone
    \/ HandlerPanics
    \/ \E sig \in Signals : Signal(sig)
    \/ AwaitSignal
    \/ ShutdownCall
    \/ ShutdownReturns
    \/ ShutdownDeadline
    \/ LogShutdownError
    \/ GracefulStopCall
    \/ GracefulStopReturns
    \/ LogStopped
    \/ Second

SpecMain == Init /\ [][NextMain]_vars

-----------------------------------------------------------------------------
(* The two transports: what a handler returns over gRPC, and what the gateway *)
(* of startHTTPServer writes for it                                          *)

\* the handler returned a non-nil error: status.Error(codes.X, ...)
TransportError(r) == r.code # "OK"

\* the type of the message the handler returned with a nil error, "nil" with an error
ResponseMessage(op, r) ==
    IF r.code # "OK" THEN "nil"
    ELSE CASE op \in {"CreateUser", "GetUser", "UpdateUser"} -> "User"
           [] op = "ListUsers" -> "ListUsersResponse"
           [] op = "BatchGetUsers" -> "BatchGetUsersResponse"
           [] op = "DeleteUser" -> "Empty"

\* the number of a gRPC status code
GRPCCode(code) ==
    CASE code = "OK" -> 0
      [] code = "InvalidArgument" -> 3
      [] code = "NotFound" -> 5
      [] OTHER -> 2

\* runtime.HTTPStatusFromCode
HTTPStatusFromCode(code) ==
    CASE code = "OK" -> 200
      [] code = "InvalidArgument" -> 400
      [] code = "NotFound" -> 404
      [] OTHER -> 500

\* customErrorHandler = runtime.DefaultHTTPErrorHandler: the HTTP status of the
\* gRPC code, and the status as the JSON body {code, message, details}
customErrorHandler(r) ==
    [status |-> HTTPStatusFromCode(r.code),
     body |-> [code |-> GRPCCode(r.code), message |-> r.code, details |-> <<>>]]

UserJSON(u) ==
    [name |-> u.name, email |-> u.email, displayName |-> u.display_name,
     phoneNumber |-> u.phone_number, isActive |-> u.is_active,
     createTime |-> u.create_time, updateTime |-> u.update_time]

\* the gateway's answer to a REST call whose handler returned r: the response
\* message as JSON with status 200, or what the error handler writes
GatewayResponse(op, r) ==
    IF TransportError(r) THEN customErrorHandler(r)
    ELSE [status |-> 200,
          body |-> CASE op \in {"CreateUser", "GetUser", "UpdateUser"} -> UserJSON(heap[r.user])
                     [] op = "ListUsers" ->
                           [users |-> [i \in 1..Len(r.users) |-> UserJSON(heap[r.users[i]])],
                            nextPageToken |-> r.next_page_token,
                            totalSize |-> r.total_size]
                     [] op = "BatchGetUsers" ->
                           [users |-> [i \in 1..Len(r.users) |-> UserJSON(heap[r.users[i]])]]
                     [] OTHER -> <<>>]

-----------------------------------------------------------------------------
(* Properties of the store under Spec *)

Returned(p, op) == pc[p] = "ret" /\ cur[p].op = op

\* C1: the k-th successful CreateUser returns the name "users/k": numbering starts
\* at 1 and rises by one per successful create, so the names handed out are pairwise
\* distinct and none is handed out again, also after its record was deleted.
C1_KthCreateIsUsersK ==
    /\ \A k \in 1..Len(created) : created[k] = UserName(SprintfD(k))
    /\ \A i, j \in 1..Len(created) : i # j => created[i] # created[j]
    /\ Len(created) >= 1 => created[1] = "users/1"
    /\ Len(created) >= 2 => created[2] = "users/2"
    /\ nextID = Len(created) + 1 \/ \E p \in Procs : pc[p] \in {"create_store"}

\* a CreateUser has just returned "users/2" after "users/1" was deleted
C1_Witness ==
    \E p \in Procs :
        /\ Returned(p, "CreateUser")
        /\ res[p].code = "OK"
        /\ heap[res[p].user].name = "users/2"
        /\ "users/1" \in deleted

\* C2: CreateUser calls with valid input made by concurrent callers all succeed,
\* each with a name no other create received, and each adds its own record: the
\* store holds exactly the created names that were not deleted since, each under
\* its own record.
C2_ConcurrentCreatesDistinct ==
    /\ \A i, j \in 1..Len(created) : i # j => created[i] # created[j]
    /\ DOMAIN users = Range(created) \ deleted
    /\ \A n \in DOMAIN users : heap[users[n]].name = n
    /\ Len(heap) = Len(created)
    /\ \A p \in Procs :
          Returned(p, "CreateUser") /\ cur[p].user.present /\ cur[p].user.email # ""
          => /\ res[p].code = "OK"
             /\ heap[res[p].user].email = cur[p].user.email
             /\ \A q \in Procs \ {p} :
                    Returned(q, "CreateUser") => res[q].user # res[p].user

\* two callers each hold the record their own create returned
C2_Witness ==
    \E p, q \in Procs :
        /\ p # q
        /\ pc[p] = "idle" /\ held[p] # {}
        /\ Returned(q, "CreateUser") /\ res[q].code = "OK"
        /\ \A a \in held[p] : heap[a].name = "users/1"
        /\ heap[res[q].user].name = "users/2"
        /\ DOMAIN users = {"users/1", "users/2"}

\* C3: every stored record has a non-empty email.
C3_EmailNeverEmpty ==
    \A n \in DOMAIN users : heap[users[n]].email # ""

\* C4: a record returned to a caller is a copy: no later step of the store changes
\* the field values of a record a caller already holds.
C4_HeldRecordNeverChanges ==
    [][\A p \in Procs :
          pc[p] = "idle" /\ pc'[p] = "idle"
          => \A a \in held[p] : heap'[a] = heap[a]]_vars

\* C5: ListUsers never fails, and an offset out of range yields an empty slice.
C5_ListNeverFails ==
    \A p \in Procs :
        Returned(p, "ListUsers")
        => /\ res[p].code = "OK"
           /\ (loc[p].start < 0 \/ loc[p].start > Cardinality(DOMAIN users))
                => res[p].users = <<>>

\* C9: a successful ListUsers response has total_size equal to the number of stored
\* records, and its next_page_token is empty exactly when the slice reaches the end
\* of the enumeration, and is otherwise the decimal offset + number returned.
C9_TotalSizeAndNextToken ==
    \A p \in Procs :
        Returned(p, "ListUsers") /\ res[p].code = "OK"
        => LET total == Cardinality(DOMAIN users)
               reached == loc[p].start + Len(res[p].users)
           IN  /\ res[p].total_size = total
               /\ (res[p].next_page_token = <<>>) <=> (reached = total)
               /\ reached # total =>
                    /\ res[p].next_page_token = SprintfD(reached)
                    /\ DecodePageToken(res[p].next_page_token) = reached

\* a page that stops short of the end, and names the offset of the next record
C9_Witness ==
    \E p \in Procs :
        /\ Returned(p, "ListUsers") /\ res[p].code = "OK"
        /\ Len(res[p].users) = 1
        /\ res[p].total_size = 2
        /\ res[p].next_page_token = <<"1">>

C11_DeleteAbsentSucceeds ==
    [][\A p \in Procs :
          (pc[p] = "delete_remove" /\ pc'[p] = "ret" /\ cur[p].name \notin DOMAIN users)
             => res'[p].code = "OK"]_vars

\* the index of name among the successful creates
CreatedAt(name) == CHOOSE k \in 1..Len(created) : created[k] = name

\* C12: GetUser of a name that CreateUser returned, with no update or delete of that
\* name in between, succeeds with a record whose email, display_name and
\* phone_number are those of the create's input, whose name is the name created
\* and whose create_time equals its update_time.
C12_CreateGetRoundTrip ==
    \A p \in Procs :
        (/\ Returned(p, "GetUser")
         /\ cur[p].name \in Range(created)
         /\ cur[p].name \notin updated \cup deleted)
        => /\ res[p].code = "OK"
           /\ LET r == heap[res[p].user]
                  u == inputs[CreatedAt(cur[p].name)]
              IN  /\ r.email = u.email
                  /\ r.display_name = u.display_name
                  /\ r.phone_number = u.phone_number
                  /\ r.name = cur[p].name
                  /\ r.create_time = r.update_time

\* a GetUser has returned the record created from the input with a phone number
C12_Witness ==
    \E p \in Procs :
        /\ Returned(p, "GetUser")
        /\ res[p].code = "OK"
        /\ cur[p].name \notin updated
        /\ inputs[CreatedAt(cur[p].name)].phone_number = "555"
        /\ heap[res[p].user].phone_number = "555"

\* C13: CreateUser fails with InvalidArgument exactly when the request has no user
\* record or the record's email is empty; every other call succeeds with a record
\* whose name is not empty.
C13_CreateRejectsExactly ==
    \A p \in Procs :
        Returned(p, "CreateUser")
        => IF ~cur[p].user.present \/ cur[p].user.email = ""
           THEN res[p].code = "InvalidArgument"
           ELSE /\ res[p].code = "OK"
                /\ res[p].user \in DOMAIN heap
                /\ heap[res[p].user].name # ""

\* a CreateUser with a record that has a display name but no email was rejected
C13_Witness ==
    \E p \in Procs :
        /\ Returned(p, "CreateUser")
        /\ cur[p].user.present
        /\ cur[p].user.display_name = "Ann"
        /\ cur[p].user.email = ""
        /\ res[p].code = "InvalidArgument"
        /\ Len(created) = 1

\* C14: the record a successful CreateUser stored is active and has the name the
\* store assigned, and its times are the clock's: the name, is_active, create_time
\* and update_time of the input are not copied.
C14_CreateIgnoresClientFields ==
    \A p \in Procs :
        Returned(p, "CreateUser") /\ res[p].code = "OK"
        => LET r == heap[res[p].user]
               u == cur[p].user
           IN  /\ r.is_active = TRUE
               /\ r.name = UserName(SprintfD(Len(created)))
               /\ u.name # "" => r.name # u.name
               /\ r.create_time \in 0..now
               /\ r.update_time \in 0..now
               /\ users[r.name] = res[p].user

\* a create whose input carried a name, times and is_active = false stored users/1
C14_Witness ==
    \E p \in Procs :
        /\ Returned(p, "CreateUser") /\ res[p].code = "OK"
        /\ cur[p].user.name = "users/999"
        /\ cur[p].user.create_time = 7
        /\ ~cur[p].user.is_active
        /\ heap[res[p].user].name = "users/1"
        /\ heap[res[p].user].is_active
        /\ heap[res[p].user].create_time = 1

\* C15: an UpdateUser with a mask sets the fields among email, display_name,
\* phone_number and is_active that the mask names to the input's values and leaves
\* the others of these as they were, whatever the input carries for them; it
\* changes no other record.
C15_MaskSelectsFields ==
    [][\A p \in Procs :
          (pc[p] = "update_apply" /\ pc'[p] = "update_stamp" /\ cur[p].update_mask.present)
          => LET a == loc[p].user
                 src == cur[p].user
                 paths == cur[p].update_mask.paths
                 named(f) == \E i \in 1..Len(paths) : paths[i] = f
             IN  /\ heap'[a].email = IF named("email") THEN src.email ELSE heap[a].email
                 /\ heap'[a].display_name =
                       IF named("display_name") THEN src.display_name ELSE heap[a].display_name
                 /\ heap'[a].phone_number =
                       IF named("phone_number") THEN src.phone_number ELSE heap[a].phone_number
                 /\ heap'[a].is_active =
                       IF named("is_active") THEN src.is_active ELSE heap[a].is_active
                 /\ \A b \in DOMAIN heap \ {a} : heap'[b] = heap[b]]_vars

\* a mask naming display_name changed it and kept the email, against a new email
\* in the input
C15_Witness ==
    \E p \in Procs :
        /\ pc[p] = "update_stamp"
        /\ cur[p].update_mask.present
        /\ Len(cur[p].update_mask.paths) >= 1
        /\ cur[p].update_mask.paths[1] = "display_name"
        /\ cur[p].user.email = EmailB
        /\ heap[loc[p].user].display_name = "Bob"
        /\ heap[loc[p].user].email = EmailA

C17_PartialUpdateKeepsActive ==
    [][\A p \in Procs :
          (/\ pc[p] = "update_apply" /\ pc'[p] = "update_stamp"
           /\ ~cur[p].update_mask.present
           /\ cur[p].user.email = "" /\ ~cur[p].user.is_active
           /\ cur[p].user.display_name # "" /\ cur[p].user.phone_number # ""
           /\ heap[loc[p].user].is_active)
          => /\ heap'[loc[p].user].display_name = cur[p].user.display_name
             /\ heap'[loc[p].user].phone_number = cur[p].user.phone_number
             /\ heap'[loc[p].user].email = heap[loc[p].user].email
             /\ heap'[loc[p].user].is_active = TRUE]_vars

\* C18: no step changes the name or the create_time of a record, and the step that
\* completes an UpdateUser sets the record's update_time to the time of that step.
C18_NameAndCreateTimeFixed ==
    [][/\ \A a \in DOMAIN heap :
             /\ heap'[a].name = heap[a].name
             /\ heap'[a].create_time = heap[a].create_time
       /\ \A p \in Procs :
             (pc[p] = "update_stamp" /\ pc'[p] = "ret")
             => /\ res'[p].code = "OK"
                /\ heap'[res'[p].user].update_time = now]_vars

\* an update with a mask naming create_time and name returned: the record has its
\* create_time of 0 and the update_time 1
C18_Witness ==
    \E p \in Procs :
        /\ Returned(p, "UpdateUser") /\ res[p].code = "OK"
        /\ \E i \in 1..Len(cur[p].update_mask.paths) :
              cur[p].update_mask.paths[i] = "create_time"
        /\ cur[p].user.create_time = 7
        /\ heap[res[p].user].create_time = 0
        /\ heap[res[p].user].update_time = 1

\* C19: every stored record has create_time <= update_time, and the two are equal
\* as long as no UpdateUser of the record has succeeded.
C19_CreateTimeAtMostUpdateTime ==
    \A n \in DOMAIN users :
        /\ heap[users[n]].create_time <= heap[users[n]].update_time
        /\ n \notin updated => heap[users[n]].create_time = heap[users[n]].update_time

\* a stored record was updated after the clock moved on, next to one never updated
C19_Witness ==
    \E n, m \in DOMAIN users :
        /\ n \in updated
        /\ heap[users[n]].create_time < heap[users[n]].update_time
        /\ m \notin updated
        /\ heap[users[m]].create_time = 1

\* C20: BatchGetUsers with 1 to 1000 names succeeds and returns the stored records
\* of exactly the requested names that have one; a name without a record is left
\* out, also when no requested name has a record.
C20_BatchGetOmitsMissing ==
    \A p \in Procs :
        (/\ Returned(p, "BatchGetUsers")
         /\ Len(cur[p].names) >= 1
         /\ Len(cur[p].names) <= 1000)
        => /\ res[p].code = "OK"
           /\ \A a \in Range(res[p].users) : a \in DOMAIN heap
           /\ {heap[a].name : a \in Range(res[p].users)} = Range(cur[p].names) \cap DOMAIN users
           /\ \A a \in Range(res[p].users) : users[heap[a].name] = a
           /\ Len(res[p].users) =
                 Cardinality({i \in 1..Len(cur[p].names) : cur[p].names[i] \in DOMAIN users})

\* a batch of users/1 and users/999 returned the one record of users/1, while
\* another record is stored
C20_Witness ==
    \E p \in Procs :
        /\ Returned(p, "BatchGetUsers")
        /\ cur[p].names = <<"users/1", "users/999">>
        /\ res[p].code = "OK"
        /\ Len(res[p].users) = 1
        /\ heap[res[p].users[1]].name = "users/1"
        /\ DOMAIN users = {"users/1", "users/2"}

\* C21: BatchGetUsers fails with InvalidArgument exactly when its list of names is
\* empty or has more than 1000 entries; a list of exactly 1000 names is accepted.
C21_BatchRejectsExactly ==
    \A p \in Procs :
        Returned(p, "BatchGetUsers")
        => LET n == Len(cur[p].names) IN
           /\ (res[p].code = "InvalidArgument") <=> (n = 0 \/ n > 1000)
           /\ (n >= 1 /\ n <= 1000) => res[p].code = "OK"

\* a list of exactly 1000 names was accepted and answered with 1000 records
C21_Witness ==
    \E p \in Procs :
        /\ Returned(p, "BatchGetUsers")
        /\ Len(cur[p].names) = 1000
        /\ res[p].code = "OK"
        /\ Len(res[p].users) = 1000

\* the outcome the contract gives a GetUser, DeleteUser or UpdateUser request on
\* the store as it is
OutcomeByContract(req) ==
    LET name == IF req.op = "UpdateUser" THEN req.user.name ELSE req.name
        absent == IF req.op = "UpdateUser" THEN ~req.user.present \/ name = "" ELSE name = ""
    IN  IF absent THEN "InvalidArgument"
        ELSE IF name \notin DOMAIN users THEN "NotFound"
        ELSE "OK"

\* GetUser, DeleteUser and UpdateUser end with the outcome of the contract
GetDeleteUpdateClassified ==
    [][\A p \in Procs :
          (/\ pc[p] # "ret" /\ pc'[p] = "ret"
           /\ cur'[p].op \in {"GetUser", "DeleteUser", "UpdateUser"})
          => res'[p].code = OutcomeByContract(cur'[p])]_vars

\* C22: every outcome of a store operation is success, InvalidArgument or NotFound,
\* never an unclassified fault; GetUser, DeleteUser and UpdateUser end with
\* InvalidArgument exactly for an absent or empty name or user record, NotFound
\* exactly for a non-empty name without a record, and success otherwise.
C22_OutcomesClassified ==
    [][\A p \in Procs :
          (pc[p] # "ret" /\ pc'[p] = "ret")
          => /\ res'[p].code \in {"OK", "InvalidArgument", "NotFound"}
             /\ cur'[p].op \in {"GetUser", "DeleteUser", "UpdateUser"}
                  => res'[p].code = OutcomeByContract(cur'[p])]_vars

WriteOps == {"CreateUser", "UpdateUser", "DeleteUser"}

ReadOps == {"GetUser", "ListUsers", "BatchGetUsers"}

\* the goroutine is between the Lock()/RLock() of a handler and its deferred unlock
InSection(p, ops) ==
    /\ cur[p].op \in ops
    /\ pc[p] \notin {"idle", "crashed"}
    /\ pc[p] = "ret" => res[p].code # "InvalidArgument"

\* C27: no writer (CreateUser, UpdateUser, DeleteUser) is inside its critical
\* section while another writer or a reader (GetUser, ListUsers, BatchGetUsers) is
\* inside its own.
C27_WritersExclusive ==
    \A p, q \in Procs :
        (p # q /\ InSection(p, WriteOps)) => ~InSection(q, WriteOps \cup ReadOps)

\* two readers are inside their critical sections at the same time
C27_Witness ==
    \E p, q \in Procs :
        /\ p # q
        /\ InSection(p, ReadOps) /\ pc[p] = "get_lookup"
        /\ InSection(q, ReadOps) /\ pc[q] = "list_slice"

\* C28: a caller holding a record that an operation returned never has it while a
\* concurrent UpdateUser is between its writes to that record, with only a part of
\* the update's changes applied.
C28_NoTornRecord ==
    \A p, q \in Procs :
        (pc[p] = "idle" /\ pc[q] = "update_stamp") => loc[q].user \notin held[p]

\* C29: every entry of the map is keyed by the name of its record, which is
\* users/k for a k with 1 <= k < nextID; a name is a key exactly when it was
\* created and not deleted since; GetUser(name) succeeds exactly when name is a key.
C29_KeyedByName ==
    /\ \A n \in DOMAIN users :
          /\ heap[users[n]].name = n
          /\ \E k \in 1..(nextID - 1) : n = UserName(SprintfD(k))
    /\ \A n \in ReqNames \cup Range(created) :
          n \in DOMAIN users <=> (n \in Range(created) /\ n \notin deleted)
    /\ \A p \in Procs :
          Returned(p, "GetUser")
          => /\ res[p].code = "OK" <=> cur[p].name \in DOMAIN users
             /\ res[p].code = "OK" => heap[res[p].user].name = cur[p].name

\* users/1 was created and deleted: GetUser("users/1") returned NotFound
C29_Witness ==
    \E p \in Procs :
        /\ Returned(p, "GetUser")
        /\ cur[p].name = "users/1"
        /\ res[p].code = "NotFound"
        /\ "users/1" \in deleted
        /\ DOMAIN users = {}
        /\ nextID = 2

KnownPaths == {"email", "display_name", "phone_number", "is_active"}

\* the mask of the request is present and names none of the four fields
NamesNoField(req) ==
    /\ req.update_mask.present
    /\ \A i \in 1..Len(req.update_mask.paths) : req.update_mask.paths[i] \notin KnownPaths

\* C30: an UpdateUser whose mask is present and names no path, or only paths other
\* than email, display_name, phone_number and is_active, succeeds, changes nothing
\* of the record but its update_time, and sets that to the time of the update.
C30_EmptyMaskOnlyStamps ==
    [][\A p \in Procs :
          /\ (pc[p] = "update_apply" /\ pc'[p] = "update_stamp" /\ NamesNoField(cur[p]))
                => heap' = heap
          /\ (pc[p] = "update_stamp" /\ pc'[p] = "ret" /\ NamesNoField(cur[p]))
                => /\ res'[p].code = "OK"
                   /\ heap'[loc[p].user] = [heap[loc[p].user] EXCEPT !.update_time = now]
                   /\ \A a \in DOMAIN heap \ {loc[p].user} : heap'[a] = heap[a]]_vars

\* an update with a mask without paths returned: the record has the values it was
\* created with, against other values in the input, and the update_time 1
C30_Witness ==
    \E p \in Procs :
        /\ Returned(p, "UpdateUser") /\ res[p].code = "OK"
        /\ cur[p].update_mask.present /\ cur[p].update_mask.paths = <<>>
        /\ cur[p].user.email = EmailB
        /\ heap[res[p].user].email = EmailA
        /\ heap[res[p].user].display_name = "Ann"
        /\ heap[res[p].user].is_active
        /\ heap[res[p].user].create_time = 0
        /\ heap[res[p].user].update_time = 1

\* the request is an UpdateUser whose mask names each of the four known fields
FullMask(req) ==
    /\ req.op = "UpdateUser"
    /\ req.update_mask.present
    /\ KnownPaths \subseteq Range(req.update_mask.paths)

\* the three string fields an update can set
StringFields == {"email", "display_name", "phone_number"}

\* C31: the step of UpdateUser that applies a mask naming all four known fields
\* sets email, display_name, phone_number and is_active of the stored record to
\* the input's values, empty strings included, and touches nothing else; its
\* result equals the one of the update without a mask whenever no string field of
\* the input is empty, and differs from it when a string field of the input is
\* empty while the stored one is not.
C31_FullMaskCopiesAll ==
    [][\A p \in Procs :
          (pc[p] = "update_apply" /\ pc'[p] = "update_stamp" /\ FullMask(cur[p])) =>
             LET a == loc[p].user
                 src == cur[p].user
                 lenient == UpdateAllFields(heap[a], src)
             IN  /\ heap'[a].email = src.email
                 /\ heap'[a].display_name = src.display_name
                 /\ heap'[a].phone_number = src.phone_number
                 /\ heap'[a].is_active = src.is_active
                 /\ heap'[a].name = heap[a].name
                 /\ heap'[a].create_time = heap[a].create_time
                 /\ heap'[a].update_time = heap[a].update_time
                 /\ (\A f \in StringFields : src[f] # "") => heap'[a] = lenient
                 /\ heap'[a] # lenient => \E f \in StringFields : src[f] = ""
                 /\ (\E f \in StringFields : src[f] = "" /\ heap[a][f] # "")
                       => heap'[a] # lenient]_vars

\* an update with the full mask and an empty display_name has cleared the
\* display_name "Ann" the record was created with
C31_Witness ==
    \E p \in Procs :
        /\ pc[p] = "update_stamp"
        /\ FullMask(cur[p])
        /\ cur[p].user.display_name = ""
        /\ cur[p].user.name = "users/1"
        /\ "users/1" \notin updated
        /\ Len(inputs) >= 1
        /\ inputs[1].display_name = "Ann"
        /\ heap[loc[p].user].display_name = ""
        /\ heap[loc[p].user].email = EmailB

\* the goroutine p takes a step
Acting(p) == pc'[p] # pc[p]

\* the operation the step of p belongs to
ActingOp(p) == IF pc[p] = "idle" THEN cur'[p].op ELSE cur[p].op

\* the step of p ends its operation with InvalidArgument or NotFound
Fails(p) ==
    /\ Acting(p)
    /\ pc'[p] = "ret"
    /\ res'[p].code \in {"InvalidArgument", "NotFound"}

\* the positions of a handler from which it writes the store
WritingSteps == {"create_incr", "create_store", "update_apply", "update_stamp"}

\* C32: an operation that fails with InvalidArgument or NotFound has changed
\* neither the map, nor a field of a record, nor the id counter: the step it fails
\* in changes none of them and it has taken no writing step before; the steps that
\* write lead to a successful return only. A rejected CreateUser has consumed no
\* id: the next successful create is named after the number of creates that
\* succeeded before it.
C32_FailureChangesNothing ==
    [][\A p \in Procs :
          /\ Fails(p) => /\ UNCHANGED <<users, heap, nextID>>
                         /\ pc[p] \notin WritingSteps
                         /\ pc[p] \in {"idle", "get_lookup", "update_lookup",
                                       "delete_remove", "list_scan", "list_slice",
                                       "batch_collect"}
          /\ (Acting(p) /\ pc[p] = "idle") => UNCHANGED <<users, heap, nextID>>
          /\ (Acting(p) /\ pc[p] \in {"get_lookup", "update_lookup", "list_scan",
                                      "list_slice", "batch_collect", "create_id"})
                => UNCHANGED <<users, heap, nextID>>
          /\ (Acting(p) /\ pc[p] \in WritingSteps /\ pc'[p] = "ret")
                => res'[p].code = "OK"
          /\ (Acting(p) /\ pc[p] = "delete_remove" /\ users' # users)
                => res'[p].code = "OK"
          /\ (Acting(p) /\ pc[p] = "create_store")
                => /\ created' = Append(created, UserName(SprintfD(Len(created) + 1)))
                   /\ heap'[Len(heap')].name = UserName(SprintfD(Len(created) + 1))]_vars

\* a CreateUser without an email was rejected after one create succeeded; the
\* counter still holds the number of the second record
C32_Witness ==
    \E p \in Procs :
        /\ Returned(p, "CreateUser")
        /\ res[p].code = "InvalidArgument"
        /\ cur[p].user.present
        /\ created = <<"users/1">>
        /\ nextID = 2
        /\ DOMAIN users = {"users/1"}

\* the records at the addresses other than a are the same after the step
OthersUnchanged(a) ==
    /\ Len(heap') = Len(heap)
    /\ \A b \in 1..Len(heap) : b # a => heap'[b] = heap[b]

\* C33: a step of CreateUser leaves every record and every entry of the map as it
\* was, the step that stores adds one record under one new name, and the counter
\* rises by one in the one step that increments it; a step of UpdateUser changes
\* the record of the named user at most, and neither its name, nor the map, nor
\* the counter; a step of DeleteUser removes the entry of the named user at most
\* and changes no record and not the counter; a step of GetUser, ListUsers or
\* BatchGetUsers, and a step of no handler, changes none of the three.
C33_OnlyOwnRecord ==
    [][/\ (\A p \in Procs : ~Acting(p)) => UNCHANGED <<users, heap, nextID>>
       /\ \A p \in Procs : Acting(p) =>
            CASE ActingOp(p) \in ReadOps -> UNCHANGED <<users, heap, nextID>>
              [] ActingOp(p) = "CreateUser" ->
                    /\ \A b \in 1..Len(heap) : heap'[b] = heap[b]
                    /\ \A n \in DOMAIN users : n \in DOMAIN users' /\ users'[n] = users[n]
                    /\ nextID' = IF pc[p] = "create_incr" THEN nextID + 1 ELSE nextID
                    /\ IF pc[p] = "create_store"
                       THEN /\ Len(heap') = Len(heap) + 1
                            /\ heap'[Len(heap')].name \notin DOMAIN users
                            /\ DOMAIN users' = DOMAIN users \cup {heap'[Len(heap')].name}
                            /\ users'[heap'[Len(heap')].name] = Len(heap')
                       ELSE UNCHANGED <<users, heap>>
              [] ActingOp(p) = "UpdateUser" ->
                    /\ UNCHANGED <<users, nextID>>
                    /\ heap' # heap =>
                          /\ cur[p].user.name \in DOMAIN users
                          /\ OthersUnchanged(users[cur[p].user.name])
                          /\ heap'[users[cur[p].user.name]].name = cur[p].user.name
              [] ActingOp(p) = "DeleteUser" ->
                    /\ UNCHANGED <<heap, nextID>>
                    /\ users' # users =>
                          /\ DOMAIN users' = DOMAIN users \ {cur[p].name}
                          /\ \A n \in DOMAIN users' : users'[n] = users[n]
              [] OTHER -> FALSE]_vars

\* an UpdateUser of users/1 has succeeded while users/2 is stored, and the record
\* of users/2 is as it was created
C33_Witness ==
    \E p \in Procs :
        /\ Returned(p, "UpdateUser")
        /\ res[p].code = "OK"
        /\ cur[p].user.name = "users/1"
        /\ DOMAIN users = {"users/1", "users/2"}
        /\ heap[users["users/2"]].email = EmailA
        /\ heap[users["users/2"]].update_time = heap[users["users/2"]].create_time
        /\ heap[users["users/1"]].email = EmailB
        /\ nextID = 3

\* C34: a name whose DeleteUser succeeded is never again a key of the map; an
\* UpdateUser of such a name that holds the lock finds no record and ends with
\* NotFound; and an UpdateUser that ends successfully ends on the record the map
\* holds under its name at that moment, a name no delete has removed.
C34_NoResurrection ==
    [][/\ \A n \in deleted' : n \notin DOMAIN users'
       /\ \A p \in Procs :
            /\ (Acting(p) /\ pc[p] = "update_lookup" /\ cur[p].user.name \in deleted)
                  => pc'[p] = "ret" /\ res'[p].code = "NotFound"
            /\ (Acting(p) /\ ActingOp(p) = "UpdateUser" /\ pc'[p] = "ret"
                    /\ res'[p].code = "OK")
                  => /\ cur[p].user.name \in DOMAIN users'
                     /\ users'[cur[p].user.name] = res'[p].user
                     /\ cur[p].user.name \notin deleted']_vars

\* an UpdateUser of users/1 has ended with NotFound after users/1 was deleted
C34_Witness ==
    \E p \in Procs :
        /\ Returned(p, "UpdateUser")
        /\ res[p].code = "NotFound"
        /\ cur[p].user.name = "users/1"
        /\ "users/1" \in deleted
        /\ created = <<"users/1">>
        /\ "users/1" \notin DOMAIN users

\* C35: a successful BatchGetUsers returns, in the order of the request, the
\* stored record of every entry of the request whose name has one: as many records
\* as the request has such entries, counted with repetition.
C35_BatchGetInRequestOrder ==
    \A p \in Procs :
        (Returned(p, "BatchGetUsers") /\ res[p].code = "OK") =>
            LET found == SelectSeq(cur[p].names, Exists)
            IN  /\ Len(res[p].users) = Len(found)
                /\ \A i \in 1..Len(found) :
                      /\ res[p].users[i] = users[found[i]]
                      /\ res[p].users[i] \in DOMAIN heap
                      /\ heap[res[p].users[i]].name = found[i]

\* a batch of users/2, users/999, users/1, users/2 returned the records of
\* users/2, users/1 and users/2, in this order
C35_Witness ==
    \E p \in Procs :
        /\ Returned(p, "BatchGetUsers")
        /\ res[p].code = "OK"
        /\ cur[p].names = <<"users/2", "users/999", "users/1", "users/2">>
        /\ Len(res[p].users) = 3
        /\ NamesOf(res[p].users) = <<"users/2", "users/1", "users/2">>

\* the goroutine p serves a call that has not returned
InProgress(p) == pc[p] # "idle"

\* the lock is held by no goroutine, for writing or for reading
LockFree == mu.w = 0 /\ mu.r = {}

\* whenever no call is in progress the lock is free; a goroutine holds the lock
\* only while its call is in progress
LockFreeWhenQuiet ==
    /\ (\A p \in Procs : ~InProgress(p)) => LockFree
    /\ \A p \in Procs : (mu.w = p \/ p \in mu.r) => InProgress(p)

\* every call that was taken returns in the end, unless a panic ended the process
ReturnsUnlessCrashed == \A p \in Procs : InProgress(p) ~> (~InProgress(p) \/ Crashed)

\* C36: under fair scheduling every call that was taken returns to its caller in
\* the end, and whenever no call is in progress the lock is free.
C36_EveryCallReturns ==
    /\ \A p \in Procs : InProgress(p) ~> ~InProgress(p)
    /\ [](LockFreeWhenQuiet)

-----------------------------------------------------------------------------
(* Properties of the transports under Spec *)

Classified(p) == pc[p] = "ret" /\ res[p].code \in {"OK", "InvalidArgument", "NotFound"}

\* C23: every handler returns, for every request, a nil error and a non-nil
\* CommonResponse, which carries the outcome in its error_code (0, 400, 404).
C23_NilErrorAndEnvelope ==
    \A p \in Procs :
        Classified(p)
        => /\ ~TransportError(res[p])
           /\ ResponseMessage(cur[p].op, res[p]) = "CommonResponse"

\* C24: where the RPC transport reports OK, InvalidArgument or NotFound, the body of
\* the REST transport's response carries error_code 0, 400 or 404.
C24_SameClassification ==
    \A p \in Procs :
        Classified(p)
        => LET body == GatewayResponse(cur[p].op, res[p]).body IN
           /\ "error_code" \in DOMAIN body
           /\ body.error_code = CASE res[p].code = "OK" -> 0
                                  [] res[p].code = "InvalidArgument" -> 400
                                  [] res[p].code = "NotFound" -> 404

\* C25: the REST transport answers a logical failure with HTTP status 200, as it
\* answers a success.
C25_AlwaysHTTP200 ==
    \A p \in Procs :
        Classified(p) => GatewayResponse(cur[p].op, res[p]).status = 200

-----------------------------------------------------------------------------
(* Properties of ListUsers under SpecPage, SpecToken and SpecList *)

\* C6: with nothing else running, paging with any page_size >= 1 from the empty
\* token until the token is empty returns every stored record exactly once, and
\* the number of records visited is the first call's total_size.
C6_PagingVisitsEachOnce ==
    pager.state \in {"done", "failed"}
    => /\ pager.state = "done"
       /\ \A i, j \in 1..Len(pager.visited) : pager.visited[i] = pager.visited[j] => i = j
       /\ Range(pager.visited) = DOMAIN users
       /\ Len(pager.visited) = pager.total

IsDecimal(token) == token # <<>> /\ \A i \in 1..Len(token) : IsDigit(token[i])

DecimalValue(token) ==
    LET RECURSIVE val(_)
        val(k) == IF k = 0 THEN 0 ELSE 10 * val(k - 1) + DigitVal(token[k])
    IN  val(Len(token))

\* C7: the decoder maps the empty token, and every token that is not exactly a
\* decimal non-negative integer, to offset 0, and a decimal token n to offset n.
C7_DecoderStrict ==
    \A p \in Procs :
        pc[p] \in {"list_slice", "ret"} /\ cur[p].op = "ListUsers"
        => loc[p].start = IF IsDecimal(cur[p].page_token)
                          THEN DecimalValue(cur[p].page_token) ELSE 0

\* C8: a ListUsers call whose offset s has 0 <= s <= total returns min(p, total - s)
\* records, where p is 50 for a page_size <= 0, 1000 for a page_size over 1000 and
\* the page_size otherwise: no call returns more than 1000 records.
C8_PageLength ==
    \A p \in Procs :
        Returned(p, "ListUsers")
        => LET total == Cardinality(DOMAIN users)
               s == loc[p].start
               ps == cur[p].page_size
               eff == IF ps <= 0 THEN 50 ELSE IF ps > 1000 THEN 1000 ELSE ps
               rest == total - s
           IN  /\ (0 <= s /\ s <= total)
                    => /\ res[p].code = "OK"
                       /\ Len(res[p].users) = IF eff < rest THEN eff ELSE rest
               /\ Len(res[p].users) <= 1000

\* a page_size of 5000 on a store of 1001 records returned 1000 of them
C8_Witness ==
    \E p \in Procs :
        /\ Returned(p, "ListUsers")
        /\ cur[p].page_size = 5000
        /\ Cardinality(DOMAIN users) = 1001
        /\ loc[p].start = 0
        /\ Len(res[p].users) = 1000

-----------------------------------------------------------------------------
(* Properties of package response under SpecResponse *)

\* what a struct built from "result" -> x holds, written from x
HoldsResult(data, x) ==
    /\ data.present
    /\ Len(data.fields) = 1
    /\ data.fields[1][1] = "result"
    /\ LET held_value == data.fields[1][2] IN
       CASE x.kind = "nil" -> held_value.kind = "null_value"
         [] x.kind = "bool" -> held_value.kind = "bool_value" /\ held_value.v = x.v
         [] x.kind = "int" -> held_value.kind = "number_value" /\ held_value.v = x.v
         [] x.kind = "string" -> held_value.kind = "string_value" /\ held_value.v = x.v
         [] x.kind = "map" ->
               /\ held_value.kind = "struct_value"
               /\ DOMAIN held_value.v = DOMAIN x.v
               /\ \A k \in DOMAIN x.v : held_value.v[k].v = x.v[k].v
         [] x.kind = "slice" ->
               /\ held_value.kind = "list_value"
               /\ Len(held_value.v) = Len(x.v)
               /\ \A i \in 1..Len(x.v) : held_value.v[i].v = x.v[i].v
         [] OTHER -> FALSE

\* the envelopes of Success, SuccessEmpty and the four named helpers, and data
\* being non-null only with error_code 0
EnvelopeOfHelpers ==
    LET e == envelope
        r == envelope.out.response
        default == CASE e.fn = "InvalidArgument" -> MsgInvalidArgument
                     [] e.fn = "NotFound" -> MsgNotFound
                     [] e.fn = "InternalError" -> MsgInternalError
                     [] e.fn = "AlreadyExists" -> MsgAlreadyExists
                     [] OTHER -> ""
        code == CASE e.fn = "InvalidArgument" -> 400
                  [] e.fn = "NotFound" -> 404
                  [] e.fn = "InternalError" -> 500
                  [] e.fn = "AlreadyExists" -> 409
                  [] OTHER -> 0
    IN  /\ (e.fn = "Success" /\ r.present)
             => /\ r.error_code = 0
                /\ r.error_msg = "success"
                /\ HoldsResult(r.data, e.data)
                /\ ~e.out.err
        /\ (e.fn = "Success" /\ ~r.present) => e.out.err
        /\ e.fn \in {"InvalidArgument", "NotFound", "InternalError", "AlreadyExists"}
             => /\ r.present
                /\ r.error_code = code
                /\ r.error_msg = IF e.message = "" THEN default ELSE e.message
                /\ ~r.data.present
        /\ e.fn = "SuccessEmpty"
             => r.present /\ r.error_code = 0 /\ r.error_msg = "success" /\ ~r.data.present
        /\ (r.present /\ r.data.present) => r.error_code = 0

-----------------------------------------------------------------------------
(* Properties of main under SpecMain *)

Logged(msg) == \E i \in 1..Len(srv.log) : srv.log[i] = msg

\* main is past the if statement that follows httpServer.Shutdown
PastShutdown == srv.pc \in {"graceful_call", "graceful_wait", "log_stopped", "exited"}

\* C37: main starts the shutdown only after os.Interrupt or SIGTERM; it calls
\* httpServer.Shutdown first, which returns 10 seconds after its context was made
\* at the latest, and leaves the gRPC server serving until Shutdown has returned;
\* GracefulStop returns when no RPC is being served; "Servers stopped" is logged
\* only after Shutdown has returned and the gRPC server has stopped; when Shutdown
\* returned an error the error is logged before GracefulStop is called, and main
\* returns only after the gRPC server has stopped.
C37_OrderedShutdown ==
    /\ srv.pc # "await_signal" => srv.sig \in Signals /\ Logged(MsgShuttingDown)
    /\ srv.http # "serving" => srv.sig \in Signals
    /\ srv.pc = "shutdown_wait" => srv.timer <= ShutdownTimeout /\ srv.http = "closing"
    /\ srv.err = "DeadlineExceeded" => srv.timer >= ShutdownTimeout
    /\ srv.grpc # "serving" => srv.err # "pending" /\ srv.http # "serving"
    /\ PastShutdown <=> srv.err # "pending" /\ srv.pc # "log_error"
    /\ srv.http = "closed" <=> srv.err = "nil"
    /\ srv.http = "closed" => srv.waiting + srv.calling = 0
    /\ srv.grpc = "stopped" => srv.rpcs + srv.calling = 0
    /\ Logged(MsgStopped) => srv.err # "pending" /\ srv.grpc = "stopped"
    /\ Logged(MsgShutdownError) <=> srv.err = "DeadlineExceeded" /\ PastShutdown
    /\ srv.pc \in {"log_stopped", "exited"} => srv.grpc = "stopped"
    /\ srv.pc = "exited" => Logged(MsgStopped)

\* after SIGTERM, Shutdown ran into its deadline with a REST request in flight:
\* the error was logged, the gRPC server was stopped and main has returned
C37_Witness ==
    /\ srv.pc = "exited"
    /\ srv.sig = "SIGTERM"
    /\ srv.err = "DeadlineExceeded"
    /\ srv.grpc = "stopped"
    /\ srv.log = <<MsgShuttingDown, MsgShutdownError, MsgStopped>>

====
